---------------------------- MODULE Spec2Model ----------------------------
(***************************************************************************)
(* Electoral roll pipeline (backend/electoral_roll_pipeline.py): the text  *)
(* normalizer clean, the house-number canonicalizer normalize_house_no,    *)
(* the field extractor parse_block, the page parser parse_page and the     *)
(* cleaning pass of json_to_csv.                                           *)
(*                                                                         *)
(* Text is a TLA+ string; positions are 1-based inside the helpers and     *)
(* 0-based (Python offsets) wherever the code stores an offset.            *)
(***************************************************************************)
EXTENDS Integers, Sequences, FiniteSets, TLC

VARIABLES
    pc,            \* position of the run
    h, house_out,                                   \* normalize_house_no
    s, once, twice,                                 \* clean
    tmpl, block, fields,                            \* parse_block
    text, page_num, text_clean, part_no, section,   \* parse_page
    id_positions, i, windows, candidates, voters,
    data, p, all_voters, r, seen, cleaned           \* json_to_csv

vars == <<pc, h, house_out, s, once, twice, tmpl, block, fields,
          text, page_num, text_clean, part_no, section,
          id_positions, i, windows, candidates, voters,
          data, p, all_voters, r, seen, cleaned>>

houseVars == <<h, house_out>>
cleanVars == <<s, once, twice>>
blockVars == <<tmpl, block, fields>>
pageVars  == <<text, page_num, text_clean, part_no, section,
               id_positions, i, windows, candidates, voters>>
docVars   == <<data, p, all_voters, r, seen, cleaned>>

-----------------------------------------------------------------------------
(* Characters and character classes of the regular expressions.            *)

At(str, k) == SubSeq(str, k, k)

\* Python str[a:b] with 0 <= a <= b <= len(str)
Slice(str, a, b) == SubSeq(str, a + 1, b)

CharsOf(str) == {At(str, k) : k \in 1..Len(str)}

LowerAlpha == "abcdefghijklmnopqrstuvwxyz"
UpperAlpha == "ABCDEFGHIJKLMNOPQRSTUVWXYZ"

LowerLetters == CharsOf(LowerAlpha)
UpperLetters == CharsOf(UpperAlpha)
Letters      == LowerLetters \cup UpperLetters
Digits       == CharsOf("0123456789")
WordChars    == Letters \cup Digits \cup {"_"}
Whitespace   == {" ", "\t", "\n"}
Blank        == {" ", "\t"}
Separators   == {":", "+", "!"}

UpperMap == [c \in LowerLetters |->
               At(UpperAlpha, CHOOSE k \in 1..26 : At(LowerAlpha, k) = c)]
LowerMap == [c \in UpperLetters |->
               At(LowerAlpha, CHOOSE k \in 1..26 : At(UpperAlpha, k) = c)]

UpperChar(c) == IF c \in LowerLetters THEN UpperMap[c] ELSE c
LowerChar(c) == IF c \in UpperLetters THEN LowerMap[c] ELSE c

\* the concatenation of Out(str, k) for k = a..b, by halving the range
RECURSIVE UpperRange(_, _, _)
UpperRange(str, a, b) ==
    IF a > b THEN ""
    ELSE IF a = b THEN UpperChar(At(str, a))
    ELSE UpperRange(str, a, (a + b) \div 2) \o UpperRange(str, (a + b) \div 2 + 1, b)

RECURSIVE LowerRange(_, _, _)
LowerRange(str, a, b) ==
    IF a > b THEN ""
    ELSE IF a = b THEN LowerChar(At(str, a))
    ELSE LowerRange(str, a, (a + b) \div 2) \o LowerRange(str, (a + b) \div 2 + 1, b)

\* str.upper(), str.lower()
Upper(str) == UpperRange(str, 1, Len(str))
Lower(str) == LowerRange(str, 1, Len(str))

\* str.capitalize(): first character upper-cased, the rest lower-cased
Capitalize(str) ==
    IF str = "" THEN ""
    ELSE UpperChar(At(str, 1)) \o Lower(SubSeq(str, 2, Len(str)))

\* lit occurs in str at position k
LitAt(str, k, lit) ==
    /\ k >= 1
    /\ k + Len(lit) - 1 <= Len(str)
    /\ SubSeq(str, k, k + Len(lit) - 1) = lit

\* the same under re.IGNORECASE
LitAtCI(str, k, lit) ==
    /\ k >= 1
    /\ k + Len(lit) - 1 <= Len(str)
    /\ Upper(SubSeq(str, k, k + Len(lit) - 1)) = Upper(lit)

\* "sub in str"
Contains(str, sub) == \E k \in 1..(Len(str) + 1) : LitAt(str, k, sub)

\* first position >= k whose character is not in class (Len+1 when none):
\* where a greedy class* or class+ starting at k stops
RECURSIVE SkipClass(_, _, _)
SkipClass(str, k, class) ==
    IF k <= Len(str) /\ At(str, k) \in class
    THEN SkipClass(str, k + 1, class) ELSE k

Max(S) == CHOOSE x \in S : \A y \in S : y <= x
Min(S) == CHOOSE x \in S : \A y \in S : x <= y

\* first position >= k whose character is in class (Len+1 when none)
FindClass(str, k, class) ==
    LET hits == {j \in k..Len(str) : At(str, j) \in class}
    IN  IF hits = {} THEN Len(str) + 1 ELSE Min(hits)

\* str.strip(), str.rstrip(chars)
RECURSIVE RStripLen(_, _, _)
RStripLen(str, n, class) ==
    IF n >= 1 /\ At(str, n) \in class THEN RStripLen(str, n - 1, class) ELSE n

RStrip(str, class) == SubSeq(str, 1, RStripLen(str, Len(str), class))
LStrip(str, class) == SubSeq(str, SkipClass(str, 1, class), Len(str))
Strip(str) == LStrip(RStrip(str, Whitespace), Whitespace)

\* re.sub(r"<class>+", rep, str): every maximal run of class becomes rep
\* what position k contributes: rep for the first character of a run of
\* class, nothing for the rest of the run, the character itself otherwise
CollapseAt(str, k, class, rep) ==
    IF At(str, k) \notin class THEN At(str, k)
    ELSE IF k > 1 /\ At(str, k - 1) \in class THEN ""
    ELSE rep

RECURSIVE CollapseRange(_, _, _, _, _)
CollapseRange(str, a, b, class, rep) ==
    IF a > b THEN ""
    ELSE IF a = b THEN CollapseAt(str, a, class, rep)
    ELSE CollapseRange(str, a, (a + b) \div 2, class, rep)
         \o CollapseRange(str, (a + b) \div 2 + 1, b, class, rep)

CollapseRuns(str, class, rep) == CollapseRange(str, 1, Len(str), class, rep)

\* str.replace(old, new) for a single character old
RECURSIVE ReplaceRange(_, _, _, _, _)
ReplaceRange(str, a, b, old, new) ==
    IF a > b THEN ""
    ELSE IF a = b THEN (IF At(str, a) = old THEN new ELSE At(str, a))
    ELSE ReplaceRange(str, a, (a + b) \div 2, old, new)
         \o ReplaceRange(str, (a + b) \div 2 + 1, b, old, new)

Replace(str, old, new) == ReplaceRange(str, 1, Len(str), old, new)

-----------------------------------------------------------------------------
(* normalize_house_no                                                      *)

\* re.match(r"^([0-9/]+)([A-Za-z]?)$", str): <<num, suf>>, or <<>> when there
\* is no match.  "$" matches at the end and also just before a final "\n".
HouseMatch(str) ==
    LET n    == SkipClass(str, 1, Digits \cup {"/"}) - 1
        rest == SubSeq(str, n + 1, Len(str))
    IN  IF n = 0 THEN <<>>
        ELSE IF rest \in {"", "\n"} THEN <<SubSeq(str, 1, n), "">>
        ELSE IF /\ At(rest, 1) \in Letters
                /\ SubSeq(rest, 2, Len(rest)) \in {"", "\n"}
             THEN <<SubSeq(str, 1, n), At(rest, 1)>>
        ELSE <<>>

normalize_house_no(raw) ==
    IF raw = "" THEN ""
    ELSE LET a == Replace(Strip(raw), ",", "")
             b == Replace(a, "-", "/")
             c == CollapseRuns(b, {"/"}, "/")
             m == HouseMatch(c)
         IN  IF m = <<>> THEN "" ELSE m[1] \o Upper(m[2])

-----------------------------------------------------------------------------
(* clean                                                                   *)

\* end (exclusive, 1-based) of a match of r"\s*(Name\s*[:+!].*)" under
\* re.IGNORECASE that starts at k, or 0 when there is none
NameLabelMatchEnd(str, k) ==
    LET a == SkipClass(str, k, Whitespace)
        b == SkipClass(str, a + 4, Whitespace)
    IN  IF LitAtCI(str, a, "Name") /\ b <= Len(str) /\ At(str, b) \in Separators
        THEN FindClass(str, b + 1, {"\n"})
        ELSE 0

\* re.sub(r"\s*(Name\s*[:+!].*)", "", str, flags=re.IGNORECASE)
RECURSIVE RemoveNameLabelFrom(_, _)
RemoveNameLabelFrom(str, k) ==
    LET hits == {j \in k..Len(str) : NameLabelMatchEnd(str, j) > 0}
    IN  IF hits = {} THEN SubSeq(str, k, Len(str))
        ELSE SubSeq(str, k, Min(hits) - 1)
             \o RemoveNameLabelFrom(str, NameLabelMatchEnd(str, Min(hits)))

RemoveNameLabel(str) == RemoveNameLabelFrom(str, 1)

clean(str) ==
    IF str = "" THEN ""
    ELSE LET a == Strip(CollapseRuns(str, Whitespace, " "))
             b == Strip(RStrip(a, {"-", "~"}))
         IN  Strip(RemoveNameLabel(b))

-----------------------------------------------------------------------------
(* parse_block                                                             *)

BAD_NAMES == {"26-VELACHERY", "VELACHERY", "3-CHENNAI SOUTH",
              "CHENNAI SOUTH", "ELECTORAL ROLL", "ASSEMBLY CONSTITUENCY"}

TamilMale   == "ஆண்"
TamilFemale == "பெண்"
GenderTokens == <<"Male", "Female", TamilMale, TamilFemale>>

\* position just after r"\s*[:+!]" matched at k, or 0 when it does not match
AfterSep(str, k) ==
    LET a == SkipClass(str, k, Whitespace)
    IN  IF a <= Len(str) /\ At(str, a) \in Separators THEN a + 1 ELSE 0

\* r"\s*([^<excl>]+)" matched at q, excl a set of whitespace characters:
\* <<group>>, or <<>> when it does not match.  The greedy \s* runs up to the
\* first non-blank character, which starts the group; when only whitespace
\* is left, \s* gives back characters until one not in excl starts the group
CaptureRun(str, q, excl) ==
    LET k == SkipClass(str, q, Whitespace)
    IN  IF k <= Len(str)
        THEN <<SubSeq(str, k, FindClass(str, k, excl) - 1)>>
        ELSE LET back == {m \in q..Len(str) : At(str, m) \notin excl}
             IN  IF back = {} THEN <<>> ELSE <<At(str, Max(back))>>

\* the name captured like the house number, up to the first blank
NameMatchAt_ToBlank(str, k) ==
    LET q == IF LitAt(str, k, "Name") THEN AfterSep(str, k + 4) ELSE 0
    IN  IF q = 0 THEN <<>> ELSE CaptureRun(str, q, {"\n", " "})

\* r"Name\s*[:+!]\s*([^\n]+)" matched at k
NameMatchAt(str, k) ==
    LET q == IF LitAt(str, k, "Name") THEN AfterSep(str, k + 4) ELSE 0
    IN  IF q = 0 THEN <<>> ELSE CaptureRun(str, q, {"\n"})

\* r"<who>(?:'s)? Name\s*[:+!]\s*([^\n]+)" matched at k
RelationMatchAt(str, k, who) ==
    LET a == k + Len(who)
        b == IF LitAt(str, a, "'s") THEN a + 2 ELSE a
        q == IF LitAt(str, k, who) /\ LitAt(str, b, " Name")
             THEN AfterSep(str, b + 5) ELSE 0
    IN  IF q = 0 THEN <<>> ELSE CaptureRun(str, q, {"\n"})

FatherMatchAt(str, k)  == RelationMatchAt(str, k, "Father")
HusbandMatchAt(str, k) == RelationMatchAt(str, k, "Husband")
MotherMatchAt(str, k)  == RelationMatchAt(str, k, "Mother")

\* r"House\s*Number\s*[:+!]\s*([^\n ]+)" matched at k
HouseMatchAt(str, k) ==
    LET a == SkipClass(str, k + 5, Whitespace)
        q == IF LitAt(str, k, "House") /\ LitAt(str, a, "Number")
             THEN AfterSep(str, a + 6) ELSE 0
    IN  IF q = 0 THEN <<>> ELSE CaptureRun(str, q, {"\n", " "})

\* r"Age\s*[:+!]\s*(\d+)" matched at k
AgeMatchAt(str, k) ==
    LET q == IF LitAt(str, k, "Age") THEN AfterSep(str, k + 3) ELSE 0
        a == SkipClass(str, q, Whitespace)
        e == SkipClass(str, a, Digits)
    IN  IF q = 0 \/ e = a THEN <<>> ELSE <<SubSeq(str, a, e - 1)>>

\* r"Gender\s*[:+!]\s*(Male|Female|<male>|<female>)" matched at k
GenderMatchAt(str, k) ==
    LET q == IF LitAt(str, k, "Gender") THEN AfterSep(str, k + 6) ELSE 0
        a == SkipClass(str, q, Whitespace)
        hits == {n \in 1..Len(GenderTokens) : LitAt(str, a, GenderTokens[n])}
    IN  IF q = 0 \/ hits = {} THEN <<>> ELSE <<GenderTokens[Min(hits)]>>

\* re.search: the match at the leftmost position where the pattern matches
Search(str, MatchAt(_, _)) ==
    LET hits == {k \in 1..Len(str) : MatchAt(str, k) # <<>>}
    IN  IF hits = {} THEN <<>> ELSE MatchAt(str, Min(hits))

BlockName(name_m) ==
    LET n0 == IF name_m # <<>> THEN clean(name_m[1]) ELSE ""
        n1 == IF \/ Contains(Upper(n0), "NAME")
                 \/ Contains(n0, "-")
                 \/ Contains(n0, "=")
              THEN "" ELSE n0
    IN  IF Upper(n1) \in BAD_NAMES \/ (n1 # "" /\ At(n1, 1) \in Digits)
        THEN "" ELSE n1

BlockRelation(father_m, husband_m, mother_m) ==
    IF father_m # <<>> THEN <<"S/O", clean(father_m[1])>>
    ELSE IF husband_m # <<>> THEN <<"W/O", clean(husband_m[1])>>
    ELSE IF mother_m # <<>> THEN <<"C/O", clean(mother_m[1])>>
    ELSE <<"", "">>

BlockGender(gender_m) ==
    LET gender_raw == IF gender_m # <<>> THEN gender_m[1] ELSE ""
    IN  IF gender_raw = TamilMale THEN "Male"
        ELSE IF gender_raw = TamilFemale THEN "Female"
        ELSE Capitalize(gender_raw)

parse_block(blk) ==
    LET name_m    == Search(blk, NameMatchAt)
        father_m  == Search(blk, FatherMatchAt)
        husband_m == Search(blk, HusbandMatchAt)
        mother_m  == Search(blk, MotherMatchAt)
        house_m   == Search(blk, HouseMatchAt)
        age_m     == Search(blk, AgeMatchAt)
        gender_m  == Search(blk, GenderMatchAt)
        rel       == BlockRelation(father_m, husband_m, mother_m)
    IN  [name          |-> BlockName(name_m),
         relation_type |-> rel[1],
         relation_name |-> rel[2],
         house_number  |-> IF house_m # <<>>
                           THEN normalize_house_no(clean(house_m[1])) ELSE "",
         age           |-> IF age_m # <<>> THEN age_m[1] ELSE "",
         gender        |-> BlockGender(gender_m)]

ScoredFields == <<"name", "age", "gender", "house_number">>

completeness(f) ==
    Cardinality({n \in 1..Len(ScoredFields) : f[ScoredFields[n]] # ""})

-----------------------------------------------------------------------------
(* parse_page                                                              *)

\* r"Part No\.:(\w+)" matched at k
PartMatchAt(str, k) ==
    LET e == SkipClass(str, k + 9, WordChars)
    IN  IF LitAt(str, k, "Part No.:") /\ e > k + 9
        THEN <<SubSeq(str, k + 9, e - 1)>> ELSE <<>>

\* the lazy group (.+?) started at a and closed by (?:\n|Part No): the
\* shortest non-empty run without "\n" that is followed by "\n" or "Part No"
LazySection(str, a) ==
    LET line == FindClass(str, a, {"\n"})
        ends == {e \in (a + 1)..line :
                    e <= Len(str) /\ (At(str, e) = "\n" \/ LitAt(str, e, "Part No"))}
    IN  IF ends = {} THEN <<>> ELSE <<SubSeq(str, a, Min(ends) - 1)>>

\* r"Section No and Name\s+(.+?)(?:\n|Part No)" matched at k: the greedy \s+
\* takes the whole run of whitespace and gives it back one character at a
\* time (keeping at least one) until the group matches
SectionMatchAt(str, k) ==
    LET q == k + 19
        w == SkipClass(str, q, Whitespace)
        starts == {a \in (q + 1)..w : LazySection(str, a) # <<>>}
    IN  IF LitAt(str, k, "Section No and Name") /\ starts # {}
        THEN LazySection(str, Max(starts)) ELSE <<>>

\* length of a match of VOTER_ID_PAT r"([A-Z]{2,3}\d{7})" at k, or 0
AllIn(str, a, b, class) ==
    b <= Len(str) /\ \A j \in a..b : At(str, j) \in class

\* the pattern with exactly two letters, [A-Z]{2}\d{7}
VoterIdLenAt_TwoLetters(str, k) ==
    IF AllIn(str, k, k + 1, UpperLetters) /\ AllIn(str, k + 2, k + 8, Digits)
    THEN 9 ELSE 0

VoterIdLenAt(str, k) ==
    IF AllIn(str, k, k + 2, UpperLetters) /\ AllIn(str, k + 3, k + 9, Digits)
    THEN 10
    ELSE IF AllIn(str, k, k + 1, UpperLetters) /\ AllIn(str, k + 2, k + 8, Digits)
    THEN 9
    ELSE 0

\* [(m.start(), m.group()) for m in VOTER_ID_PAT.finditer(str)]
RECURSIVE FindIdsFrom(_, _)
FindIdsFrom(str, k) ==
    LET hits == {j \in k..Len(str) : VoterIdLenAt(str, j) > 0}
    IN  IF hits = {} THEN <<>>
        ELSE LET j == Min(hits)
                 n == VoterIdLenAt(str, j)
             IN  <<<<j - 1, SubSeq(str, j, j + n - 1)>>>> \o FindIdsFrom(str, j + n)

FindIds(str) == FindIdsFrom(str, 1)

CollapseBlanks(str) == CollapseRuns(str, Blank, " ")

PagePartNo(tc) ==
    LET part_m == Search(tc, PartMatchAt)
    IN  IF part_m # <<>> THEN part_m[1] ELSE ""

PageSection(tc) ==
    LET section_m == Search(tc, SectionMatchAt)
    IN  IF section_m # <<>> THEN clean(section_m[1]) ELSE ""

\* the before window taken from the start of the page for every anchor
Windows_FromStart(tc, ids, n) ==
    LET pos      == ids[n + 1][1]
        next_pos == IF n + 1 < Len(ids) THEN ids[n + 2][1] ELSE Len(tc)
    IN  [after_block    |-> Slice(tc, pos, next_pos),
         before_block   |-> Slice(tc, 0, pos),
         combined_block |-> Slice(tc, 0, pos) \o "\n" \o Slice(tc, pos, next_pos)]

\* the windows of the anchor with 0-based index n
Windows(tc, ids, n) ==
    LET pos      == ids[n + 1][1]
        prev_pos == IF n > 0 THEN ids[n][1] ELSE 0
        next_pos == IF n + 1 < Len(ids) THEN ids[n + 2][1] ELSE Len(tc)
    IN  [after_block    |-> Slice(tc, pos, next_pos),
         before_block   |-> Slice(tc, prev_pos, pos),
         combined_block |-> Slice(tc, prev_pos, pos) \o "\n"
                            \o Slice(tc, pos, next_pos)]

Candidates(w) ==
    <<parse_block(w.after_block),
      parse_block(w.before_block),
      parse_block(w.combined_block)>>

\* ties resolved to the last candidate of maximal score
BestIndex_LastMax(cands) ==
    CHOOSE n \in 1..Len(cands) :
        /\ \A m \in 1..Len(cands) : completeness(cands[m]) <= completeness(cands[n])
        /\ \A m \in (n + 1)..Len(cands) : completeness(cands[m]) < completeness(cands[n])

\* max(candidates, key=completeness): the first candidate of maximal score
BestIndex(cands) ==
    CHOOSE n \in 1..Len(cands) :
        /\ \A m \in 1..Len(cands) : completeness(cands[m]) <= completeness(cands[n])
        /\ \A m \in 1..(n - 1) : completeness(cands[m]) < completeness(cands[n])

Best(cands) == cands[BestIndex(cands)]

Voter(vid, best, part, sect, page) ==
    [voter_id      |-> vid,
     name          |-> best.name,
     relation_type |-> best.relation_type,
     relation_name |-> best.relation_name,
     house_number  |-> best.house_number,
     age           |-> best.age,
     gender        |-> best.gender,
     part_no       |-> part,
     section       |-> sect,
     page          |-> page,
     constituency  |-> "26-VELACHERY",
     parliamentary_constituency |-> "3-CHENNAI SOUTH"]

AnchorVoter(tc, ids, n, part, sect, page) ==
    Voter(ids[n + 1][2], Best(Candidates(Windows(tc, ids, n))), part, sect, page)

parse_page(txt, page) ==
    LET tc  == CollapseBlanks(txt)
        ids == FindIds(tc)
    IN  [n \in 1..Len(ids) |->
            AnchorVoter(tc, ids, n - 1, PagePartNo(tc), PageSection(tc), page)]

-----------------------------------------------------------------------------
(* json_to_csv: the cleaning pass                                          *)

RowName(row)  == Strip(row.name)
RowHouse(row) == Strip(row.house_number)

\* the key without the upper-casing of the name
RowKey_NoUpper(row) == <<RowName(row), RowHouse(row)>>

RowKey(row)   == <<Upper(RowName(row)), RowHouse(row)>>

RowIncomplete(row) == RowName(row) = "" \/ RowHouse(row) = ""

\* the kept row put in front instead of at the end
CleanKeep_Front(rows, row) == <<row>> \o rows

CleanKeep(rows, row) == Append(rows, row)

-----------------------------------------------------------------------------
(* Inputs                                                                  *)

MaxHouseLen    == 3
MaxCleanTokens == 4
MaxPad         == 1
MaxAnchors     == 2
MaxPages       == 2

\* every concatenation of at most n members of tokens
RECURSIVE Concats(_, _)
Concats(tokens, n) ==
    IF n = 0 THEN {""}
    ELSE LET shorter == Concats(tokens, n - 1)
         IN  shorter \cup {a \o b : a \in shorter, b \in tokens}

HouseAlphabet == {"1", "2", "/", "-", ",", "a", "B", " ", "\n", "#"}
HouseExamples == {"12-5,", "45a", "12//5", "House#9", ""}
HouseInputs   == Concats(HouseAlphabet, MaxHouseLen) \cup HouseExamples

CleanTokens == {"a", " ", "-", "~", "Name:", "name +x", "\n"}
CleanInputs == Concats(CleanTokens, MaxCleanTokens)

-----------------------------------------------------------------------------
(* normalize_house_no and clean as one call each                           *)

HouseIdle == h = "" /\ house_out = ""
CleanIdle == s = "" /\ once = "" /\ twice = ""
BlockIdle == tmpl = <<>> /\ block = "" /\ fields = <<>>
PageIdle  == /\ text = "" /\ page_num = 0 /\ text_clean = ""
             /\ part_no = "" /\ section = "" /\ id_positions = <<>>
             /\ i = 0 /\ windows = <<>> /\ candidates = <<>> /\ voters = <<>>
DocIdle   == /\ data = <<>> /\ p = 0 /\ all_voters = <<>>
             /\ r = 0 /\ seen = {} /\ cleaned = <<>>

InitHouse ==
    /\ pc = "house_call"
    /\ h \in HouseInputs
    /\ house_out = ""
    /\ CleanIdle /\ BlockIdle /\ PageIdle /\ DocIdle

NormalizeHouse ==
    /\ pc = "house_call"
    /\ house_out' = normalize_house_no(h)
    /\ pc' = "house_done"
    /\ UNCHANGED <<h, cleanVars, blockVars, pageVars, docVars>>

NextHouse == NormalizeHouse
SpecHouse == InitHouse /\ [][NextHouse]_vars

InitClean ==
    /\ pc = "clean_call"
    /\ s \in CleanInputs
    /\ once = "" /\ twice = ""
    /\ HouseIdle /\ BlockIdle /\ PageIdle /\ DocIdle

CleanOnce ==
    /\ pc = "clean_call"
    /\ once' = clean(s)
    /\ pc' = "clean_once"
    /\ UNCHANGED <<s, twice, houseVars, blockVars, pageVars, docVars>>

CleanTwice ==
    /\ pc = "clean_once"
    /\ twice' = clean(once)
    /\ pc' = "clean_twice"
    /\ UNCHANGED <<s, once, houseVars, blockVars, pageVars, docVars>>

NextClean == CleanOnce \/ CleanTwice
SpecClean == InitClean /\ [][NextClean]_vars

-----------------------------------------------------------------------------
(* parse_block as one call on a typeset voter entry                        *)

\* An entry is typeset one labelled field per line.  A template chooses the
\* value of each field ("" leaves the line out), the letter case of the
\* labels, the separator and the blanks around it.
Absent == ""

NameValues   == {Absent, "Ram"}
RelValues    == {Absent, "Raj", "-"}
MotherValues == {Absent, "Sita"}
HouseValues  == {Absent, "4a"}
AgeValues    == {Absent, "34"}
GenderValues == {Absent, "Male", "MALE", "female", "Other"}
LabelCases   == {"asis", "lower", "upper"}

Templates ==
    [name : NameValues, father : RelValues, husband : RelValues,
     mother : MotherValues, house : HouseValues, age : AgeValues,
     gender : GenderValues, label_case : LabelCases, sep : Separators,
     pad : 0..MaxPad]

Pad(n) == SubSeq("          ", 1, n)

Label(lbl, tp) ==
    IF tp.label_case = "lower" THEN Lower(lbl)
    ELSE IF tp.label_case = "upper" THEN Upper(lbl)
    ELSE lbl

Line(lbl, value, tp) ==
    IF value = Absent THEN ""
    ELSE Label(lbl, tp) \o Pad(tp.pad) \o tp.sep \o Pad(tp.pad) \o value \o "\n"

Render(tp) ==
    Line("Name", tp.name, tp)
    \o Line("Father's Name", tp.father, tp)
    \o Line("Husband Name", tp.husband, tp)
    \o Line("Mother Name", tp.mother, tp)
    \o Line("House Number", tp.house, tp)
    \o Line("Age", tp.age, tp)
    \o Line("Gender", tp.gender, tp)

InitBlock ==
    /\ pc = "block_call"
    /\ tmpl \in Templates
    /\ block = Render(tmpl)
    /\ fields = <<>>
    /\ HouseIdle /\ CleanIdle /\ PageIdle /\ DocIdle

ParseBlock ==
    /\ pc = "block_call"
    /\ fields' = parse_block(block)
    /\ pc' = "block_done"
    /\ UNCHANGED <<tmpl, block, houseVars, cleanVars, pageVars, docVars>>

NextBlock == ParseBlock
SpecBlock == InitBlock /\ [][NextBlock]_vars

-----------------------------------------------------------------------------
(* parse_page, one anchor per step                                         *)

Headers == {"", "Part No.:12 Section No and Name Ward 5\n"}
Chunks  == {" AB123456 Name:Ram\n",
            " Name:Sita\nAge:30 \t Gender:Female\nHouse Number:7-2\n",
            " Name:Gita\nQ"}
Ids     == {"AB1234567", "XYZ7654321"}
PageNums == {1, 2}

\* a chunk, then at most n times an identifier and a chunk
RECURSIVE Bodies(_)
Bodies(n) ==
    IF n = 0 THEN Chunks
    ELSE LET shorter == Bodies(n - 1)
         IN  shorter \cup {b \o id \o c : b \in shorter, id \in Ids, c \in Chunks}

PageTexts == {hd \o b : hd \in Headers, b \in Bodies(MaxAnchors)}

InitPage ==
    /\ pc = "page_call"
    /\ text \in PageTexts
    /\ page_num \in PageNums
    /\ text_clean = "" /\ part_no = "" /\ section = "" /\ id_positions = <<>>
    /\ i = 0 /\ windows = <<>> /\ candidates = <<>> /\ voters = <<>>
    /\ HouseIdle /\ CleanIdle /\ BlockIdle /\ DocIdle

PageStart ==
    /\ pc = "page_call"
    /\ text_clean' = CollapseBlanks(text)
    /\ part_no' = PagePartNo(text_clean')
    /\ section' = PageSection(text_clean')
    /\ id_positions' = FindIds(text_clean')
    /\ i' = 0
    /\ voters' = <<>>
    /\ pc' = "page_loop"
    /\ UNCHANGED <<text, page_num, windows, candidates,
                   houseVars, cleanVars, blockVars, docVars>>

PageAnchor ==
    /\ pc = "page_loop"
    /\ i < Len(id_positions)
    /\ LET w == Windows(text_clean, id_positions, i)
           c == Candidates(w)
       IN  /\ windows' = Append(windows, w)
           /\ candidates' = Append(candidates, c)
           /\ voters' = Append(voters, Voter(id_positions[i + 1][2], Best(c),
                                             part_no, section, page_num))
    /\ i' = i + 1
    /\ UNCHANGED <<pc, text, page_num, text_clean, part_no, section, id_positions,
                   houseVars, cleanVars, blockVars, docVars>>

PageReturn ==
    /\ pc = "page_loop"
    /\ i = Len(id_positions)
    /\ pc' = "page_done"
    /\ UNCHANGED <<pageVars, houseVars, cleanVars, blockVars, docVars>>

NextPage == PageStart \/ PageAnchor \/ PageReturn
SpecPage == InitPage /\ [][NextPage]_vars

-----------------------------------------------------------------------------
(* json_to_csv over a document                                             *)

E2EHeader == "Part No.:12 Section No and Name Ward 5 Part No.:12 "
E2EBlock(vid) ==
    vid \o " Name:RAMESH KUMAR Age:34 Gender:Male House Number:45A"
E2EPage1 == E2EHeader \o E2EBlock("AB1234567")
E2EPage2 == {E2EBlock("CD7654321"), E2EHeader \o E2EBlock("CD7654321")}

DocTexts ==
    {E2EPage1} \cup E2EPage2 \cup
    {"AB1234567 Name:Ram\nHouse Number:1\nXYZ7654321 Name:RAM\nHouse Number:1\n",
     "EF1111111 Name:Ram\nAge:40\nGH2222222 Name:Sita\nHouse Number:2\n",
     "KL3333333 Name:RAM\nHouse Number:2\nMN4444444 Name:Gita\nHouse Number:3\n",
     ""}

\* pages are numbered from 1 in document order (pdf_to_json)
Documents ==
    UNION {{[total_pages |-> n,
             pages |-> [k \in 1..n |-> [page |-> k, text |-> f[k]]]] :
            f \in [1..n -> DocTexts]} : n \in 0..MaxPages}

Init ==
    /\ pc = "doc_pages"
    /\ data \in Documents
    /\ p = 0 /\ all_voters = <<>>
    /\ r = 0 /\ seen = {} /\ cleaned = <<>>
    /\ HouseIdle /\ CleanIdle /\ BlockIdle /\ PageIdle

\* all_voters.extend(parse_page(p["text"], p["page"]))
DocParsePage ==
    /\ pc = "doc_pages"
    /\ p < Len(data.pages)
    /\ all_voters' = all_voters \o parse_page(data.pages[p + 1].text,
                                              data.pages[p + 1].page)
    /\ p' = p + 1
    /\ UNCHANGED <<pc, data, r, seen, cleaned,
                   houseVars, cleanVars, blockVars, pageVars>>

\* debug_raw.csv is written from all_voters; the cleaning pass starts
DocStartCleaning ==
    /\ pc = "doc_pages"
    /\ p = Len(data.pages)
    /\ cleaned' = <<>>
    /\ seen' = {}
    /\ r' = 0
    /\ pc' = "doc_clean"
    /\ UNCHANGED <<data, p, all_voters, houseVars, cleanVars, blockVars, pageVars>>

DocCleanRow ==
    /\ pc = "doc_clean"
    /\ r < Len(all_voters)
    /\ LET row == all_voters[r + 1]
       IN  \/ /\ RowIncomplete(row)
              /\ UNCHANGED <<seen, cleaned>>
           \/ /\ ~RowIncomplete(row)
              /\ RowKey(row) \in seen
              /\ UNCHANGED <<seen, cleaned>>
           \/ /\ ~RowIncomplete(row)
              /\ RowKey(row) \notin seen
              /\ seen' = seen \cup {RowKey(row)}
              /\ cleaned' = CleanKeep(cleaned, row)
    /\ r' = r + 1
    /\ UNCHANGED <<pc, data, p, all_voters,
                   houseVars, cleanVars, blockVars, pageVars>>

\* the cleaned rows are written out; json_to_csv returns len(cleaned)
DocReturn ==
    /\ pc = "doc_clean"
    /\ r = Len(all_voters)
    /\ pc' = "doc_done"
    /\ UNCHANGED <<docVars, houseVars, cleanVars, blockVars, pageVars>>

Next == DocParsePage \/ DocStartCleaning \/ DocCleanRow \/ DocReturn
Spec == Init /\ [][Next]_vars

-----------------------------------------------------------------------------
(* Properties: the cleaning pass (Spec)                                    *)

KeyOf(row) == <<Upper(Strip(row.name)), Strip(row.house_number)>>
Complete(row) == Strip(row.name) # "" /\ Strip(row.house_number) # ""

\* C1: the cleaned sequence holds no record whose trimmed name or trimmed
\* house_number is empty, and no two of its records share the key
\* (upper-cased trimmed name, trimmed house_number).
C1_CleanedCompleteDistinct ==
    /\ \A n \in 1..Len(cleaned) : Complete(cleaned[n])
    /\ \A m, n \in 1..Len(cleaned) : m # n => KeyOf(cleaned[m]) # KeyOf(cleaned[n])

\* a finished run that dropped an incomplete record and a duplicate (equal
\* up to letter case) and kept at least two records
C1_Witness ==
    /\ pc = "doc_done"
    /\ Len(cleaned) >= 2
    /\ \E n \in 1..Len(all_voters) : ~Complete(all_voters[n])
    /\ \E m, n \in 1..Len(all_voters) :
          /\ m < n
          /\ Complete(all_voters[m])
          /\ KeyOf(all_voters[m]) = KeyOf(all_voters[n])
          /\ all_voters[m].name # all_voters[n].name

\* the members of seq at the positions of idx, in increasing position
RECURSIVE SelectAt(_, _)
SelectAt(seq, idx) ==
    IF idx = {} THEN <<>>
    ELSE <<seq[Min(idx)]>> \o SelectAt(seq, idx \ {Min(idx)})

NameHouseKey(row) == <<Upper(Strip(row.name)), row.house_number>>

\* the positions among the first n raw records of the complete records
\* that are the first with their key
FirstOfKey(n) ==
    {k \in 1..n :
        /\ Complete(all_voters[k])
        /\ \A m \in 1..(k - 1) :
              NameHouseKey(all_voters[m]) # NameHouseKey(all_voters[k])}

\* the identifiers of the anchors of the first n pages, in page order and
\* then in anchor order
RECURSIVE AnchorIds(_)
AnchorIds(n) ==
    IF n = 0 THEN <<>>
    ELSE LET ids == FindIds(CollapseBlanks(data.pages[n].text))
         IN  AnchorIds(n - 1) \o [k \in 1..Len(ids) |-> <<n, ids[k][2]>>]

\* C2: the cleaned sequence is the raw sequence restricted, in encounter
\* order, to the records that are the first with their key (upper-cased
\* trimmed name, house_number) among the records with non-empty name and
\* house_number, whatever the voter_id and page of the later ones; the raw
\* sequence keeps one record per anchor of every page, in page order and
\* then anchor order.
C2_FirstOfKeyInOrder ==
    pc \in {"doc_clean", "doc_done"} =>
        /\ cleaned = SelectAt(all_voters, FirstOfKey(r))
        /\ [n \in 1..Len(all_voters) |->
               <<all_voters[n].page, all_voters[n].voter_id>>]
           = AnchorIds(Len(data.pages))

\* a finished run in which a later record with the key of an earlier one,
\* of another voter_id and page, was discarded and the raw sequence holds both
C2_Witness ==
    /\ pc = "doc_done"
    /\ Len(cleaned) >= 2
    /\ \E m, n \in 1..Len(all_voters) :
          /\ m < n
          /\ Complete(all_voters[m])
          /\ NameHouseKey(all_voters[m]) = NameHouseKey(all_voters[n])
          /\ all_voters[m].voter_id # all_voters[n].voter_id
          /\ all_voters[m].page # all_voters[n].page
          /\ \E k \in 1..Len(cleaned) : cleaned[k] = all_voters[m]
          /\ \A k \in 1..Len(cleaned) : cleaned[k] # all_voters[n]

\* the two-page document of the end-to-end scenario
Scenario ==
    /\ Len(data.pages) = 2
    /\ data.pages[1].text = E2EPage1
    /\ data.pages[2].text \in E2EPage2

\* what the scenario yields apart from the name
ScenarioOutcome ==
    /\ Len(all_voters) = 2
    /\ Len(cleaned) = 1
    /\ cleaned[1] = all_voters[1]
    /\ all_voters[1].voter_id = "AB1234567" /\ all_voters[1].page = 1
    /\ all_voters[2].voter_id = "CD7654321" /\ all_voters[2].page = 2
    /\ \A n \in 1..2 : all_voters[n].house_number = "45A"

\* C3 as stated: in the scenario the raw output has 2 records, the cleaned
\* output has 1 (the page-1 record), and both raw records have house_number
\* "45A" and name "RAMESH KUMAR".
C3_ScenarioAsStated ==
    (pc = "doc_done" /\ Scenario) =>
        /\ ScenarioOutcome
        /\ \A n \in 1..2 : all_voters[n].name = "RAMESH KUMAR"

\* C3 amended: in the scenario the raw output has 2 records, the cleaned
\* output has 1 (the page-1 record), both raw records have house_number
\* "45A", and their name is the rest of the line after the name label,
\* "RAMESH KUMAR Age:34 Gender:Male House Number:45A".
C3_ScenarioNameToEndOfLine ==
    (pc = "doc_done" /\ Scenario) =>
        /\ ScenarioOutcome
        /\ \A n \in 1..2 :
              all_voters[n].name
                 = "RAMESH KUMAR Age:34 Gender:Male House Number:45A"

\* json_to_csv has returned on the scenario document
C3_Witness == pc = "doc_done" /\ Scenario /\ Len(all_voters) = 2

-----------------------------------------------------------------------------
(* Properties: parse_page (SpecPage)                                       *)

\* number of non-empty values among name, age, gender and house_number
Score(f) ==
    (IF f.name # "" THEN 1 ELSE 0) + (IF f.age # "" THEN 1 ELSE 0)
    + (IF f.gender # "" THEN 1 ELSE 0) + (IF f.house_number # "" THEN 1 ELSE 0)

\* the extracted fields carried by an emitted record
FieldsOf(v) ==
    [name          |-> v.name,
     relation_type |-> v.relation_type,
     relation_name |-> v.relation_name,
     house_number  |-> v.house_number,
     age           |-> v.age,
     gender        |-> v.gender]

OnlyName(f) == f.name # "" /\ Score(f) = 1

\* C4: for every anchor the three candidates are those of the after, the
\* before and the combined window, in that order, each with a score between
\* 0 and 4; the fields of the emitted record are those of the earliest
\* candidate of maximal score; and when the after window yields only a name
\* and the before window yields name, age, gender and house number, the
\* before extraction is the one emitted.
C4_EarliestMaxScore ==
    \A n \in 1..Len(voters) :
        LET c == candidates[n]
        IN  /\ Len(c) = 3
            /\ (pc = "page_done" /\ n = Len(voters)) =>
                  /\ c[1] = parse_block(windows[n].after_block)
                  /\ c[2] = parse_block(windows[n].before_block)
                  /\ c[3] = parse_block(windows[n].combined_block)
            /\ \A m \in 1..3 : Score(c[m]) \in 0..4
            /\ \E j \in 1..3 :
                  /\ FieldsOf(voters[n]) = c[j]
                  /\ \A m \in 1..3 : Score(c[m]) <= Score(c[j])
                  /\ \A m \in 1..(j - 1) : Score(c[m]) < Score(c[j])
            /\ (OnlyName(c[1]) /\ Score(c[2]) = 4) => FieldsOf(voters[n]) = c[2]

\* a page with an anchor whose after window yields only a name and whose
\* before window yields all four fields, and an anchor whose after and
\* before windows yield different fields of the same score
C4_Witness ==
    /\ pc = "page_done"
    /\ \E n \in 1..Len(voters) :
          /\ OnlyName(candidates[n][1])
          /\ Score(candidates[n][2]) = 4
          /\ FieldsOf(voters[n]) = candidates[n][2]
    /\ \E n \in 1..Len(voters) :
          /\ Score(candidates[n][1]) = Score(candidates[n][2])
          /\ Score(candidates[n][3]) = Score(candidates[n][1])
          /\ candidates[n][1] # candidates[n][2]
          /\ FieldsOf(voters[n]) = candidates[n][1]

\* 2 or 3 uppercase Latin letters followed by 7 digits
IsVoterId(str) ==
    /\ Len(str) \in {9, 10}
    /\ \A k \in 1..(Len(str) - 7) : At(str, k) \in UpperLetters
    /\ \A k \in (Len(str) - 6)..Len(str) : At(str, k) \in Digits

\* no part of str is an identifier
NoVoterId(str) ==
    \A k \in 1..Len(str) : \A n \in {9, 10} :
        k + n - 1 <= Len(str) => ~IsVoterId(SubSeq(str, k, k + n - 1))

EndsInUpper(str) == str # "" /\ At(str, Len(str)) \in UpperLetters

\* tc is x "AB1234567" y "XYZ7654321" z with the first identifier at offset a
\* and the second at offset b, where x, y and z hold no identifier and
\* neither x nor y ends in an uppercase letter
ExampleAt(tc, a, b) ==
    /\ a + 9 <= b
    /\ LitAt(tc, a + 1, "AB1234567")
    /\ LitAt(tc, b + 1, "XYZ7654321")
    /\ ~EndsInUpper(Slice(tc, 0, a))
    /\ ~EndsInUpper(Slice(tc, a + 9, b))
    /\ NoVoterId(Slice(tc, 0, a))
    /\ NoVoterId(Slice(tc, a + 9, b))
    /\ NoVoterId(Slice(tc, b + 10, Len(tc)))

\* the offsets at which lit starts in tc
OffsetsOf(tc, lit) == {a \in 0..Len(tc) : LitAt(tc, a + 1, lit)}

HasHeader == \E hd \in Headers \ {""} : LitAt(text, 1, hd)

\* C5: parse_page emits one record per located anchor, in increasing
\* offset order; every record has a voter_id of 2 or 3 uppercase letters
\* and 7 digits, the one found at its anchor's offset, and carries the page
\* number, part_no and section of the page; a page without anchors returns
\* no record.  In a text that holds "AB1234567" and later "XYZ7654321", and
\* no other identifier nor an uppercase letter right before either, exactly
\* these two anchors are located, in that order, at the offsets where the
\* two strings start.
C5_OneRecordPerAnchor ==
    pc \in {"page_loop", "page_done"} =>
        /\ Len(voters) = i
        /\ pc = "page_done" => Len(voters) = Len(id_positions)
        /\ \A n \in 1..Len(id_positions) :
              /\ IsVoterId(id_positions[n][2])
              /\ LitAt(text_clean, id_positions[n][1] + 1, id_positions[n][2])
              /\ n > 1 => id_positions[n - 1][1] < id_positions[n][1]
        /\ \A n \in 1..Len(voters) :
              /\ voters[n].voter_id = id_positions[n][2]
              /\ voters[n].voter_id # ""
              /\ voters[n].page = page_num
              /\ voters[n].part_no = (IF HasHeader THEN "12" ELSE "")
              /\ voters[n].section = (IF HasHeader THEN "Ward 5" ELSE "")
        /\ NoVoterId(text_clean) => (id_positions = <<>> /\ voters = <<>>)
        /\ \A a \in OffsetsOf(text_clean, "AB1234567") :
              \A b \in OffsetsOf(text_clean, "XYZ7654321") :
                  ExampleAt(text_clean, a, b) =>
                      id_positions = <<<<a, "AB1234567">>, <<b, "XYZ7654321">>>>

\* parse_page has returned two records on a text of the example's shape
C5_Witness ==
    /\ pc = "page_done"
    /\ Len(voters) = 2
    /\ \E a \in OffsetsOf(text_clean, "AB1234567") :
          \E b \in OffsetsOf(text_clean, "XYZ7654321") :
              ExampleAt(text_clean, a, b)

\* C10: the after window of the anchor at pos is text[pos : nextPos], its
\* before window text[prevPos : pos] and its combined window before + newline
\* + after, with prevPos the previous anchor's offset (0 for the first) and
\* nextPos the next anchor's offset (the text length for the last); so the
\* after window begins with the anchor's identifier and holds no other
\* anchor start, the after windows of consecutive anchors are contiguous and
\* do not overlap, and the before window of every anchor but the first is
\* the after window of the anchor before it.
C10_Windows ==
    \A n \in 1..Len(windows) :
        LET pos     == id_positions[n][1]
            prevPos == IF n > 1 THEN id_positions[n - 1][1] ELSE 0
            nextPos == IF n < Len(id_positions)
                       THEN id_positions[n + 1][1] ELSE Len(text_clean)
            w       == windows[n]
        IN  /\ w.after_block = SubSeq(text_clean, pos + 1, nextPos)
            /\ w.before_block = SubSeq(text_clean, prevPos + 1, pos)
            /\ w.combined_block = w.before_block \o "\n" \o w.after_block
            /\ LitAt(w.after_block, 1, id_positions[n][2])
            /\ \A m \in 1..Len(id_positions) :
                  m # n => ~(pos <= id_positions[m][1] /\ id_positions[m][1] < nextPos)
            /\ n > 1 =>
                  /\ w.before_block = windows[n - 1].after_block
                  /\ prevPos + Len(windows[n - 1].after_block) = pos
            /\ pos + Len(w.after_block) = nextPos

\* a page on which the windows of two anchors were built
C10_Witness ==
    /\ pc = "page_done"
    /\ Len(windows) >= 2
    /\ windows[2].before_block # ""

-----------------------------------------------------------------------------
(* Properties: parse_block (SpecBlock)                                     *)

\* the relation label that comes first in the priority order father,
\* husband, mother among the labels typeset in the entry
FirstRelation(tp) ==
    IF tp.father # Absent THEN "S/O"
    ELSE IF tp.husband # Absent THEN "W/O"
    ELSE IF tp.mother # Absent THEN "C/O"
    ELSE ""

\* C6: the record returned by parse_block has relation_type and
\* relation_name either both non-empty or both empty; relation_type is one
\* of S/O, W/O, C/O or empty, that of the first label present in the order
\* father, husband, mother (father wins over husband).
C6_RelationPair ==
    pc = "block_done" =>
        /\ (fields.relation_type = "") <=> (fields.relation_name = "")
        /\ fields.relation_type \in {"S/O", "W/O", "C/O", ""}
        /\ tmpl.label_case = "asis" => fields.relation_type = FirstRelation(tmpl)

\* the entry typeset with the labels as printed and ":" as the separator
Canonical(tp) == [tp EXCEPT !.label_case = "asis", !.sep = ":"]

\* C9: two windows that differ only in the letter case of the labels or in
\* the separator (":", "+" or "!") yield the same record, and an English
\* gender token in any letter case is normalized to Male or Female while
\* any other gender value yields the empty string.
C9_LabelsAnyCaseAnySeparator ==
    pc = "block_done" =>
        /\ fields = parse_block(Render(Canonical(tmpl)))
        /\ fields.gender = (IF Lower(tmpl.gender) \in {"male", "female"}
                            THEN Capitalize(tmpl.gender) ELSE "")

-----------------------------------------------------------------------------
(* Properties: normalize_house_no (SpecHouse) and clean (SpecClean)        *)

\* one or more characters among the digits and "/", no two "/" adjacent,
\* then at most one letter of the class last
ShapedHouse(str, last) ==
    LET n    == Len(str)
        body == IF n >= 1 /\ At(str, n) \in last THEN SubSeq(str, 1, n - 1) ELSE str
    IN  /\ body # ""
        /\ CharsOf(body) \subseteq (Digits \cup {"/"})
        /\ ~Contains(body, "//")

\* the input trimmed, without commas, with "-" replaced by "/" and repeated
\* "/" collapsed
Prepared(raw) ==
    CollapseRuns(Replace(Replace(Strip(raw), ",", ""), "-", "/"), {"/"}, "/")

\* C7: normalize_house_no returns the empty string or a string of digits and
\* "/" (no two "/" adjacent) with at most one trailing uppercase letter; it
\* returns the empty string exactly when the input is empty or the prepared
\* input does not wholly match that shape (any letter case for the trailing
\* letter); "12-5," gives "12/5", "45a" gives "45A", "12//5" gives "12/5",
\* "House#9" gives "" and "" gives "".
C7_HouseCanonical ==
    pc = "house_done" =>
        /\ house_out = "" \/ ShapedHouse(house_out, UpperLetters)
        /\ (house_out = "") <=> (h = "" \/ ~ShapedHouse(Prepared(h), Letters))
        /\ h = "12-5," => house_out = "12/5"
        /\ h = "45a" => house_out = "45A"
        /\ h = "12//5" => house_out = "12/5"
        /\ h = "House#9" => house_out = ""
        /\ h = "" => house_out = ""

\* C8: clean is idempotent, clean(clean(s)) = clean(s) for every string s.
C8_CleanIdempotent ==
    pc = "clean_twice" => twice = once

=============================================================================
